---- MODULE Spec2Model ----
(***************************************************************************)
(* PhishGuard gateway (server.js + passport.js): signup, local and Google  *)
(* login, logout, current_user, the URL scan pipeline, recent-scans and    *)
(* health, as a state machine over the two MongoDB collections (users,     *)
(* urlchecks), the session store and the requests in flight.  Every        *)
(* `await` of a handler is a separate step, so requests interleave exactly *)
(* where the Node.js event loop lets them.                                 *)
(*                                                                         *)
(* A response is written to `res` by the step that completes a request and *)
(* is cleared by Deliver before the next step runs, so that a state with   *)
(* res.kind # "none" is exactly the state right after that request ended.  *)
(***************************************************************************)
EXTENDS Integers, Sequences, FiniteSets, TLC

\* ----------------------------------------------------------------- bounds
MaxUsers == 2
MaxScans == 2
MaxInFlight == 2
MaxHistory == 11

\* ------------------------------------------------------ program constants
maxAttempts == 2

\* .limit(10) of the recent-scans query
RecentLimit == 10

\* ------------------------------------------------------------ input sets
Undefined == "undefined"
Emails == {"ann@x.io", "bob@x.io"}
Passwords == {"pw1", "pw2"}
Names == {"Ann"}
GoogleIds == {"g1", "g2"}
DisplayNames == {"Gia"}
Urls == {"http://u.test", "", Undefined}
Labels == {"phishing", "legitimate"}
Statuses == {"online", "offline"}
Confidences == {97}
Causes == {"ECONNREFUSED", "timeout of 120000ms exceeded"}
StorageCauses == {"MongoNetworkError"}
Sessions == {"c1", "c2"}
Slots == 1..MaxInFlight

VARIABLES
  users,      \* the users collection, a sequence of User documents
  scans,      \* the urlchecks collection, in insertion order
  sessions,   \* session store: browser session -> user id, 0 for none
  FLASK_URL,  \* the predictor's base URL from the environment
  slot,       \* the requests waiting on I/O
  res,        \* the response just written, kind "none" when there is none
  returned    \* history: Google id -> user id its last completed login got

vars == <<users, scans, sessions, FLASK_URL, slot, res, returned>>

\* ------------------------------------------------------------ primitives
\* JavaScript truthiness of the values a request field or env var can take.
Falsy(v) == v \in {Undefined, ""}

\* bcrypt.hash(password, 10): a digest string that is not the password.
Hash(p) == "$2a$10$" \o p

\* bcrypt.compare(password, hash)
Compare(p, h) == h = Hash(p)

\* email.split("@")[0]
LocalPart(e) ==
  CASE e = "ann@x.io" -> "ann"
    [] e = "bob@x.io" -> "bob"
    [] OTHER -> e

\* req.user.name || req.user.email.split("@")[0]
Username(u) == IF Falsy(u.name) THEN LocalPart(u.email) ELSE u.name

\* ------------------------------------------------------------ collections
\* A User document; its _id is its index in `users`.
User(email, password, googleId, name) ==
  [email |-> email, password |-> password, googleId |-> googleId, name |-> name]

\* A UrlCheck document.
UrlCheck(url, prediction, confidence, user, checkedAt) ==
  [url |-> url, prediction |-> prediction, confidence |-> confidence,
   user |-> user, checkedAt |-> checkedAt]

Ids(us) == 1..Len(us)

\* User.findOne({ email }): the first document with that email, 0 for null.
FindOneByEmail(us, email) ==
  IF \E i \in Ids(us) : us[i].email = email
  THEN CHOOSE i \in Ids(us) :
         /\ us[i].email = email
         /\ \A j \in Ids(us) : us[j].email = email => i <= j
  ELSE 0

\* User.findOne({ googleId }): the first document with that googleId, 0 for null.
FindOneByGoogleId(us, gid) ==
  IF \E i \in Ids(us) : us[i].googleId = gid
  THEN CHOOSE i \in Ids(us) :
         /\ us[i].googleId = gid
         /\ \A j \in Ids(us) : us[j].googleId = gid => i <= j
  ELSE 0

\* The Users schema: email is required.
RequiredOk(doc) == doc.email # Undefined

\* The Users schema: email is unique across the collection.
MutUniqueEmailOk(us, id, doc) == TRUE

UniqueEmailOk(us, id, doc) ==
  \A j \in Ids(us) : j # id => us[j].email # doc.email

\* The Users schema: googleId, when present, is unique across the collection.
UniqueGoogleIdOk(us, id, doc) ==
  doc.googleId = Undefined
    \/ \A j \in Ids(us) : j # id => us[j].googleId # doc.googleId

\* document.save() on the users collection: does the write go through?
UserSaveOk(us, id, doc) ==
  /\ RequiredOk(doc)
  /\ UniqueEmailOk(us, id, doc)
  /\ UniqueGoogleIdOk(us, id, doc)

\* ------------------------------------------------------- requests, responses
BlankSlot ==
  [kind |-> "idle", pc |-> "idle", sess |-> Undefined, uid |-> 0,
   email |-> Undefined, password |-> Undefined, name |-> Undefined,
   sid |-> Undefined, url |-> Undefined, target |-> 0,
   prediction |-> Undefined, confidence |-> 0, calls |-> 0, prior |-> 0,
   found |-> <<>>, total |-> 0, strictQuery |-> FALSE]

BlankRes ==
  [kind |-> "none", sess |-> Undefined, uid |-> 0,
   email |-> Undefined, password |-> Undefined, name |-> Undefined,
   sid |-> Undefined, url |-> Undefined,
   status |-> 0, message |-> Undefined, error |-> Undefined,
   username |-> Undefined, prediction |-> Undefined, confidence |-> 0,
   user |-> 0, calls |-> 0, prior |-> 0,
   loggedIn |-> FALSE, scans |-> <<>>, total |-> 0, phishingFound |-> 0,
   legitimateFound |-> 0, mongodb |-> Undefined, flask_ai |-> Undefined]

\* Bound: at most MaxInFlight requests wait on I/O at once; the lowest free
\* slot takes the next one (slots are names, so nothing is lost).
FreeSlot(s) ==
  /\ slot[s].kind = "idle"
  /\ \A t \in Slots : t < s => slot[t].kind # "idle"

\* A signup or Google login in flight will insert a User unless its email is taken.
MayCreate(r) ==
  /\ r.kind \in {"signup", "google"}
  /\ r.email # Undefined
  /\ FindOneByEmail(users, r.email) = 0

\* Bound: the collection never grows past MaxUsers.
RoomForUser ==
  Len(users) + Cardinality({t \in Slots : MayCreate(slot[t])}) < MaxUsers

\* req.isAuthenticated(): passport.session() resolved the session to a user.
IsAuthenticated(uid) == uid # 0

Init ==
  /\ users = <<>>
  /\ scans = <<>>
  /\ sessions = [c \in Sessions |-> 0]
  /\ FLASK_URL \in {Undefined, "http://flask:7000"}
  /\ slot = [s \in Slots |-> BlankSlot]
  /\ res = BlankRes
  /\ returned = [g \in GoogleIds |-> 0]

\* ------------------------------------------------------------------ signup
\* POST /api/signup up to the result of User.findOne({ email }) and of
\* bcrypt.hash: 409 when the email exists, 500 when hashing throws, else the
\* request goes on to newUser.save().
MutSignupLookup(s, email, password, name) ==
  /\ res.kind = "none"
  /\ password # Undefined
  /\ FreeSlot(s)
  /\ slot' = [slot EXCEPT ![s] =
                [BlankSlot EXCEPT !.kind = "signup", !.pc = "save",
                                  !.email = email, !.password = password,
                                  !.name = name]]
  /\ UNCHANGED <<users, scans, sessions, FLASK_URL, res, returned>>

SignupLookup(s, email, password, name) ==
  /\ res.kind = "none"
  /\ LET existing == FindOneByEmail(users, email)
         req == [BlankRes EXCEPT !.kind = "signup", !.email = email,
                                 !.password = password, !.name = name]
     IN  IF existing # 0
         THEN /\ res' = [req EXCEPT !.status = 409,
                                    !.message = "Email already exists"]
              /\ UNCHANGED slot
         ELSE IF password = Undefined
         THEN /\ res' = [req EXCEPT !.status = 500,
                                    !.message = "Signup error",
                                    !.error = "Illegal arguments: undefined, number"]
              /\ UNCHANGED slot
         ELSE /\ FreeSlot(s)
              /\ RoomForUser
              /\ slot' = [slot EXCEPT ![s] =
                            [BlankSlot EXCEPT !.kind = "signup", !.pc = "save",
                                              !.email = email,
                                              !.password = password,
                                              !.name = name]]
              /\ UNCHANGED res
  /\ UNCHANGED <<users, scans, sessions, FLASK_URL, returned>>

\* POST /api/signup from the result of newUser.save() to the response.
SignupSave(s) ==
  /\ res.kind = "none"
  /\ slot[s].kind = "signup"
  /\ slot[s].pc = "save"
  /\ LET r == slot[s]
         doc == User(r.email, Hash(r.password), Undefined, r.name)
         req == [BlankRes EXCEPT !.kind = "signup", !.email = r.email,
                                 !.password = r.password, !.name = r.name]
     IN  IF UserSaveOk(users, Len(users) + 1, doc)
         THEN /\ users' = Append(users, doc)
              /\ res' = [req EXCEPT !.status = 201,
                                    !.message = "Signup success",
                                    !.user = Len(users) + 1]
         ELSE /\ UNCHANGED users
              /\ res' = [req EXCEPT !.status = 500,
                                    !.message = "Signup error",
                                    !.error = "E11000 duplicate key error"]
  /\ slot' = [slot EXCEPT ![s] = BlankSlot]
  /\ UNCHANGED <<scans, sessions, FLASK_URL, returned>>

\* ------------------------------------------------------------- local login
\* The LocalStrategy verify callback: the user passed to done(), 0 for false,
\* and the info message passed with it.
LocalVerify(us, email, password) ==
  LET id == FindOneByEmail(us, email)
  IN  IF id = 0
      THEN [user |-> 0, info |-> "Incorrect email"]
      ELSE IF Falsy(us[id].password)
      THEN [user |-> 0, info |-> "Please log in with Google"]
      ELSE IF ~Compare(password, us[id].password)
      THEN [user |-> 0, info |-> "Incorrect password"]
      ELSE [user |-> id, info |-> Undefined]

\* passport.authenticate("local") on a failed verification: no failure
\* option is given, so the info message is dropped and the reply is a bare 401.
MutLocalFailure(req, info) ==
  [req EXCEPT !.status = 401, !.message = info]

LocalFailure(req, info) ==
  [req EXCEPT !.status = 401, !.message = "Unauthorized"]

\* POST /api/login: verification, req.logIn and the handler's reply.  One
\* step: after findOne the outcome depends only on the fetched document's
\* email and password, which no request ever changes.
LoginLocal(sess, email, password) ==
  /\ res.kind = "none"
  /\ LET v == LocalVerify(users, email, password)
         req == [BlankRes EXCEPT !.kind = "login", !.sess = sess,
                                 !.email = email, !.password = password]
     IN  IF v.user # 0
         THEN /\ sessions' = [sessions EXCEPT ![sess] = v.user]
              /\ res' = [req EXCEPT !.status = 200,
                                    !.message = "Login success",
                                    !.username = Username(users[v.user]),
                                    !.user = v.user]
         ELSE /\ UNCHANGED sessions
              /\ res' = LocalFailure(req, v.info)
  /\ UNCHANGED <<users, scans, FLASK_URL, slot, returned>>

\* GET /logout
MutLogout(sess) ==
  /\ res.kind = "none"
  /\ res' = [BlankRes EXCEPT !.kind = "logout", !.sess = sess,
                             !.status = 302, !.message = "/"]
  /\ UNCHANGED <<users, scans, sessions, FLASK_URL, slot, returned>>

Logout(sess) ==
  /\ res.kind = "none"
  /\ sessions' = [sessions EXCEPT ![sess] = 0]
  /\ res' = [BlankRes EXCEPT !.kind = "logout", !.sess = sess,
                             !.status = 302, !.message = "/"]
  /\ UNCHANGED <<users, scans, FLASK_URL, slot, returned>>

\* ------------------------------------------------------------ Google login
\* done(null, user) of the Google verify callback, req.logIn and the
\* callback route's redirect to "/".
GoogleDone(req, sess, id) ==
  /\ sessions' = [sessions EXCEPT ![sess] = id]
  /\ res' = [req EXCEPT !.status = 302, !.message = "/", !.user = id]
  /\ returned' = [returned EXCEPT ![req.sid] = id]

\* done(err, null): the error handler's 500.
GoogleError(req) ==
  /\ UNCHANGED <<sessions, returned>>
  /\ res' = [req EXCEPT !.status = 500, !.message = "Internal server error"]

GoogleReq(sess, sid, email, name, prior) ==
  [BlankRes EXCEPT !.kind = "google", !.sess = sess, !.sid = sid,
                   !.email = email, !.name = name, !.prior = prior]

\* GET /auth/google/callback up to the result of User.findOne({ googleId }).
GoogleLookupId(s, sess, sid, email, name) ==
  /\ res.kind = "none"
  /\ LET user == FindOneByGoogleId(users, sid)
     IN  IF user # 0
         THEN /\ GoogleDone(GoogleReq(sess, sid, email, name, returned[sid]),
                         sess, user)
              /\ UNCHANGED slot
         ELSE /\ FreeSlot(s)
              /\ (email # Undefined /\ FindOneByEmail(users, email) = 0)
                   => RoomForUser
              /\ slot' = [slot EXCEPT ![s] =
                            [BlankSlot EXCEPT
                               !.kind = "google",
                               !.pc = IF Falsy(email) THEN "create" ELSE "byEmail",
                               !.sess = sess, !.sid = sid,
                               !.email = email, !.name = name,
                               !.prior = returned[sid]]]
              /\ UNCHANGED <<sessions, res, returned>>
  /\ UNCHANGED <<users, scans, FLASK_URL>>

\* The result of User.findOne({ email }).
GoogleLookupEmail(s) ==
  /\ res.kind = "none"
  /\ slot[s].kind = "google"
  /\ slot[s].pc = "byEmail"
  /\ LET existingEmailUser == FindOneByEmail(users, slot[s].email)
     IN  slot' = [slot EXCEPT ![s] =
                    IF existingEmailUser # 0
                    THEN [@ EXCEPT !.pc = "link", !.target = existingEmailUser]
                    ELSE [@ EXCEPT !.pc = "create"]]
  /\ UNCHANGED <<users, scans, sessions, FLASK_URL, res, returned>>

\* existingEmailUser.googleId = profile.id; the result of its save().
MutGoogleLink(s) ==
  /\ res.kind = "none"
  /\ slot[s].kind = "google"
  /\ slot[s].pc = "link"
  /\ LET r == slot[s]
         doc == User(r.email, Undefined, r.sid, r.name)
         req == GoogleReq(r.sess, r.sid, r.email, r.name, r.prior)
     IN  IF UserSaveOk(users, r.target, doc)
         THEN /\ users' = [users EXCEPT ![r.target] = doc]
              /\ GoogleDone(req, r.sess, r.target)
         ELSE /\ UNCHANGED users
              /\ GoogleError(req)
  /\ slot' = [slot EXCEPT ![s] = BlankSlot]
  /\ UNCHANGED <<scans, FLASK_URL>>

GoogleLink(s) ==
  /\ res.kind = "none"
  /\ slot[s].kind = "google"
  /\ slot[s].pc = "link"
  /\ LET r == slot[s]
         doc == [users[r.target] EXCEPT !.googleId = r.sid]
         req == GoogleReq(r.sess, r.sid, r.email, r.name, r.prior)
     IN  IF UserSaveOk(users, r.target, doc)
         THEN /\ users' = [users EXCEPT ![r.target] = doc]
              /\ GoogleDone(req, r.sess, r.target)
         ELSE /\ UNCHANGED users
              /\ GoogleError(req)
  /\ slot' = [slot EXCEPT ![s] = BlankSlot]
  /\ UNCHANGED <<scans, FLASK_URL>>

\* new User({ googleId, name, email }); the result of its save().
MutGoogleCreate(s) ==
  /\ res.kind = "none"
  /\ slot[s].kind = "google"
  /\ slot[s].pc = "create"
  /\ LET r == slot[s]
         doc == User(r.email, Undefined, Undefined, r.name)
         req == GoogleReq(r.sess, r.sid, r.email, r.name, r.prior)
     IN  IF UserSaveOk(users, Len(users) + 1, doc)
         THEN /\ users' = Append(users, doc)
              /\ GoogleDone(req, r.sess, Len(users) + 1)
         ELSE /\ UNCHANGED users
              /\ GoogleError(req)
  /\ slot' = [slot EXCEPT ![s] = BlankSlot]
  /\ UNCHANGED <<scans, FLASK_URL>>

GoogleCreate(s) ==
  /\ res.kind = "none"
  /\ slot[s].kind = "google"
  /\ slot[s].pc = "create"
  /\ LET r == slot[s]
         doc == User(r.email, Undefined, r.sid, r.name)
         req == GoogleReq(r.sess, r.sid, r.email, r.name, r.prior)
     IN  IF UserSaveOk(users, Len(users) + 1, doc)
         THEN /\ users' = Append(users, doc)
              /\ GoogleDone(req, r.sess, Len(users) + 1)
         ELSE /\ UNCHANGED users
              /\ GoogleError(req)
  /\ slot' = [slot EXCEPT ![s] = BlankSlot]
  /\ UNCHANGED <<scans, FLASK_URL>>

\* -------------------------------------------------------------------- scan
ScanReq(r) ==
  [BlankRes EXCEPT !.kind = "scan", !.sess = r.sess, !.uid = r.uid,
                   !.url = r.url, !.calls = r.calls]

\* The handler's res.json({ url, prediction, confidence, ... }).
ScanOk(r, prediction, confidence) ==
  [ScanReq(r) EXCEPT !.status = 200,
                     !.prediction = prediction, !.confidence = confidence,
                     !.message = IF prediction = "phishing"
                                 THEN "Potential phishing site detected!"
                                 ELSE "URL appears to be legitimate."]

\* The handler's catch block: 500 with the error's message.
ScanFailed(r, errMsg) ==
  [ScanReq(r) EXCEPT !.status = 500, !.message = "Scan failed",
                     !.error = errMsg]

\* The schema's default for checkedAt, the creation time: the clock is read
\* as the number of the insert, so a later document has a later checkedAt.
CheckedAtDefault(cs) == Len(cs) + 1

\* Bound: the collection never grows past MaxScans, counting the
\* authenticated scans in flight, each of which may still insert a UrlCheck.
RoomForScan ==
  Len(scans) + Cardinality({t \in Slots : slot[t].kind = "scan"
                                            /\ IsAuthenticated(slot[t].uid)})
    < MaxScans

\* The handler's checks before any predictor call: the status they answer
\* with, 0 when the request passes.
MutPrecheckNoUrl(url) == IF Falsy(FLASK_URL) THEN 503 ELSE 0

MutPrecheckNoConfig(url) == IF Falsy(url) THEN 400 ELSE 0

ScanPrecheck(url) ==
  IF Falsy(url) THEN 400
  ELSE IF Falsy(FLASK_URL) THEN 503
  ELSE 0

\* POST /api/scan-url up to the first axios.post: passport.session() has
\* resolved req.user, the url and FLASK_URL checks answer 400 and 503, else
\* the first predictor call is issued.
MutScanStart(s, sess, url) ==
  /\ res.kind = "none"
  /\ LET r == [BlankSlot EXCEPT !.kind = "scan", !.pc = "predict",
                                !.sess = sess, !.uid = sessions[sess],
                                !.url = url]
     IN  /\ FreeSlot(s)
         /\ IsAuthenticated(r.uid) => RoomForScan
         /\ slot' = [slot EXCEPT ![s] = [r EXCEPT !.calls = 1]]
         /\ IF ScanPrecheck(url) = 400
            THEN res' = [ScanReq(r) EXCEPT !.status = 400,
                                           !.message = "URL is required"]
            ELSE UNCHANGED res
  /\ UNCHANGED <<users, scans, sessions, FLASK_URL, returned>>

ScanStart(s, sess, url) ==
  /\ res.kind = "none"
  /\ LET r == [BlankSlot EXCEPT !.kind = "scan", !.pc = "predict",
                                !.sess = sess, !.uid = sessions[sess],
                                !.url = url]
     IN  IF ScanPrecheck(url) = 400
         THEN /\ res' = [ScanReq(r) EXCEPT !.status = 400,
                                           !.message = "URL is required"]
              /\ UNCHANGED slot
         ELSE IF ScanPrecheck(url) = 503
         THEN /\ res' = [ScanReq(r) EXCEPT
                           !.status = 503,
                           !.message = "AI service is not configured.",
                           !.error = "FLASK_SERVICE_NOT_CONFIGURED"]
              /\ UNCHANGED slot
         ELSE /\ FreeSlot(s)
              /\ IsAuthenticated(r.uid) => RoomForScan
              /\ slot' = [slot EXCEPT ![s] = [r EXCEPT !.calls = 1]]
              /\ UNCHANGED res
  /\ UNCHANGED <<users, scans, sessions, FLASK_URL, returned>>

\* axios.post resolves: callFlaskPredict returns the response.  An
\* authenticated request goes on to newCheck.save(), an anonymous one replies.
MutPredictOk(s, prediction, confidence) ==
  /\ res.kind = "none"
  /\ slot[s].kind = "scan"
  /\ slot[s].pc = "predict"
  /\ slot' = [slot EXCEPT ![s] = [@ EXCEPT !.pc = "save",
                                           !.prediction = prediction,
                                           !.confidence = confidence]]
  /\ UNCHANGED <<users, scans, sessions, FLASK_URL, res, returned>>

PredictOk(s, prediction, confidence) ==
  /\ res.kind = "none"
  /\ slot[s].kind = "scan"
  /\ slot[s].pc = "predict"
  /\ IF IsAuthenticated(slot[s].uid)
     THEN /\ slot' = [slot EXCEPT ![s] = [@ EXCEPT !.pc = "save",
                                                   !.prediction = prediction,
                                                   !.confidence = confidence]]
          /\ UNCHANGED res
     ELSE /\ slot' = [slot EXCEPT ![s] = BlankSlot]
          /\ res' = ScanOk(slot[s], prediction, confidence)
  /\ UNCHANGED <<users, scans, sessions, FLASK_URL, returned>>

\* axios.post rejects (error or timeout): the last attempt rethrows into the
\* handler's catch block, an earlier one starts the backoff timer.
MutPredictFail(s, cause) ==
  /\ res.kind = "none"
  /\ slot[s].kind = "scan"
  /\ slot[s].pc = "predict"
  /\ slot' = [slot EXCEPT ![s] = [@ EXCEPT !.pc = "backoff"]]
  /\ UNCHANGED <<users, scans, sessions, FLASK_URL, res, returned>>

PredictFail(s, cause) ==
  /\ res.kind = "none"
  /\ slot[s].kind = "scan"
  /\ slot[s].pc = "predict"
  /\ IF slot[s].calls = maxAttempts
     THEN /\ slot' = [slot EXCEPT ![s] = BlankSlot]
          /\ res' = ScanFailed(slot[s], cause)
     ELSE /\ slot' = [slot EXCEPT ![s] = [@ EXCEPT !.pc = "backoff"]]
          /\ UNCHANGED res
  /\ UNCHANGED <<users, scans, sessions, FLASK_URL, returned>>

\* The backoff timer fires: the next attempt's axios.post is issued.
PredictRetry(s) ==
  /\ res.kind = "none"
  /\ slot[s].kind = "scan"
  /\ slot[s].pc = "backoff"
  /\ slot' = [slot EXCEPT ![s] = [@ EXCEPT !.pc = "predict",
                                           !.calls = @ + 1]]
  /\ UNCHANGED <<users, scans, sessions, FLASK_URL, res, returned>>

\* newCheck.save() resolves, and the handler replies with the prediction.
MutScanSaveUpsert(s) ==
  /\ res.kind = "none"
  /\ slot[s].kind = "scan"
  /\ slot[s].pc = "save"
  /\ LET r == slot[s]
         doc == UrlCheck(r.url, r.prediction, r.confidence, r.uid,
                         CheckedAtDefault(scans))
         same == {i \in 1..Len(scans) :
                    scans[i].url = r.url /\ scans[i].user = r.uid}
     IN  /\ scans' = IF same = {}
                     THEN Append(scans, doc)
                     ELSE [scans EXCEPT ![CHOOSE i \in same : TRUE] = doc]
         /\ res' = ScanOk(r, r.prediction, r.confidence)
  /\ slot' = [slot EXCEPT ![s] = BlankSlot]
  /\ UNCHANGED <<users, sessions, FLASK_URL, returned>>

MutScanSaveOk(s) ==
  /\ res.kind = "none"
  /\ slot[s].kind = "scan"
  /\ slot[s].pc = "save"
  /\ LET r == slot[s]
     IN  /\ scans' = Append(scans, UrlCheck(r.url, r.prediction, r.confidence,
                                            sessions[r.sess],
                                            CheckedAtDefault(scans)))
         /\ res' = ScanOk(r, r.prediction, r.confidence)
  /\ slot' = [slot EXCEPT ![s] = BlankSlot]
  /\ UNCHANGED <<users, sessions, FLASK_URL, returned>>

ScanSaveOk(s) ==
  /\ res.kind = "none"
  /\ slot[s].kind = "scan"
  /\ slot[s].pc = "save"
  /\ LET r == slot[s]
     IN  /\ scans' = Append(scans, UrlCheck(r.url, r.prediction, r.confidence,
                                            r.uid, CheckedAtDefault(scans)))
         /\ res' = ScanOk(r, r.prediction, r.confidence)
  /\ slot' = [slot EXCEPT ![s] = BlankSlot]
  /\ UNCHANGED <<users, sessions, FLASK_URL, returned>>

\* newCheck.save() rejects: the await throws into the handler's catch block.
MutScanSaveFail(s, cause) ==
  /\ res.kind = "none"
  /\ slot[s].kind = "scan"
  /\ slot[s].pc = "save"
  /\ res' = ScanOk(slot[s], slot[s].prediction, slot[s].confidence)
  /\ slot' = [slot EXCEPT ![s] = BlankSlot]
  /\ UNCHANGED <<users, scans, sessions, FLASK_URL, returned>>

ScanSaveFail(s, cause) ==
  /\ res.kind = "none"
  /\ slot[s].kind = "scan"
  /\ slot[s].pc = "save"
  /\ res' = ScanFailed(slot[s], cause)
  /\ slot' = [slot EXCEPT ![s] = BlankSlot]
  /\ UNCHANGED <<users, scans, sessions, FLASK_URL, returned>>

\* ------------------------------------------------------------ current user
\* GET /api/current_user
CurrentUser(sess) ==
  /\ res.kind = "none"
  /\ LET uid == sessions[sess]
         req == [BlankRes EXCEPT !.kind = "current_user", !.sess = sess,
                                 !.uid = uid, !.status = 200]
     IN  res' = IF IsAuthenticated(uid)
                THEN [req EXCEPT !.loggedIn = TRUE,
                                 !.username = Username(users[uid]),
                                 !.email = users[uid].email]
                ELSE [req EXCEPT !.loggedIn = FALSE]
  /\ UNCHANGED <<users, scans, sessions, FLASK_URL, slot, returned>>

\* ------------------------------------------------------------ recent scans
\* UrlCheck.find({ user }): the ids (positions) of the matching documents.
FindByUser(cs, uid) == {i \in 1..Len(cs) : cs[i].user = uid}

\* .sort({ checkedAt: -1 }) over the documents with the ids in S; documents
\* with equal checkedAt keep their natural order.
RECURSIVE SortByCheckedAtDesc(_, _)
SortByCheckedAtDesc(cs, S) ==
  IF S = {} THEN <<>>
  ELSE LET m == CHOOSE i \in S :
                  \A j \in S :
                    \/ cs[i].checkedAt > cs[j].checkedAt
                    \/ (cs[i].checkedAt = cs[j].checkedAt /\ i <= j)
       IN  <<m>> \o SortByCheckedAtDesc(cs, S \ {m})

\* .limit(n)
Limit(ids, n) == SubSeq(ids, 1, IF Len(ids) < n THEN Len(ids) ELSE n)

\* .select("url prediction confidence checkedAt"): the projection, which
\* keeps _id.
Select(cs, i) ==
  [id |-> i, url |-> cs[i].url, prediction |-> cs[i].prediction,
   confidence |-> cs[i].confidence, checkedAt |-> cs[i].checkedAt]

\* The recentScans query of the handler.
MutRecentScansOf(cs, uid) ==
  LET ids == Limit(SortByCheckedAtDesc(cs, 1..Len(cs)), RecentLimit)
  IN  [k \in 1..Len(ids) |-> Select(cs, ids[k])]

RecentScansOf(cs, uid) ==
  LET ids == Limit(SortByCheckedAtDesc(cs, FindByUser(cs, uid)), RecentLimit)
  IN  [k \in 1..Len(ids) |-> Select(cs, ids[k])]

\* UrlCheck.countDocuments({ userId }): no UrlCheck has a userId path (the
\* handler saves the owner under user).  With strictQuery on, Mongoose
\* drops the unknown path from the filter, which then matches every
\* document; with strictQuery off the filter reaches MongoDB as written and
\* matches no document.
CountByUserId(cs, uid, strictQuery) ==
  IF strictQuery THEN Len(cs) ELSE 0

\* UrlCheck.countDocuments({ userId, prediction: "phishing" })
CountPhishingByUserId(cs, uid, strictQuery) ==
  IF strictQuery
  THEN Cardinality({i \in 1..Len(cs) : cs[i].prediction = "phishing"})
  ELSE 0

RecentReq(r) ==
  [BlankRes EXCEPT !.kind = "recent", !.sess = r.sess, !.uid = r.uid,
                   !.status = 200]

\* GET /api/recent-scans up to the result of the find query: an anonymous
\* request is answered at once.  strictQuery is the Mongoose setting of the
\* build, the same for both counts of the request.
RecentFind(s, sess, strictQuery) ==
  /\ res.kind = "none"
  /\ LET r == [BlankSlot EXCEPT !.kind = "recent", !.pc = "count",
                                !.sess = sess, !.uid = sessions[sess],
                                !.strictQuery = strictQuery]
     IN  IF ~IsAuthenticated(r.uid)
         THEN /\ res' = [RecentReq(r) EXCEPT
                           !.message = "Login to see scan history"]
              /\ UNCHANGED slot
         ELSE /\ FreeSlot(s)
              /\ slot' = [slot EXCEPT ![s] =
                            [r EXCEPT !.found = RecentScansOf(scans, r.uid)]]
              /\ UNCHANGED res
  /\ UNCHANGED <<users, scans, sessions, FLASK_URL, returned>>

\* The result of the first countDocuments.
RecentCount(s) ==
  /\ res.kind = "none"
  /\ slot[s].kind = "recent"
  /\ slot[s].pc = "count"
  /\ slot' = [slot EXCEPT ![s] =
                [@ EXCEPT !.pc = "countPhishing",
                          !.total = CountByUserId(scans, slot[s].uid,
                                                  slot[s].strictQuery)]]
  /\ UNCHANGED <<users, scans, sessions, FLASK_URL, res, returned>>

\* The result of the second countDocuments, and the handler's res.json.
RecentRespond(s) ==
  /\ res.kind = "none"
  /\ slot[s].kind = "recent"
  /\ slot[s].pc = "countPhishing"
  /\ LET r == slot[s]
         phishingCount == CountPhishingByUserId(scans, r.uid,
                                                r.strictQuery)
     IN  res' = [RecentReq(r) EXCEPT
                   !.scans = r.found,
                   !.total = r.total,
                   !.phishingFound = phishingCount,
                   !.legitimateFound = r.total - phishingCount]
  /\ slot' = [slot EXCEPT ![s] = BlankSlot]
  /\ UNCHANGED <<users, scans, sessions, FLASK_URL, returned>>

\* ------------------------------------------------------------------ health
HealthRes(mongoStatus, flaskStatus) ==
  [BlankRes EXCEPT !.kind = "health", !.status = 200, !.message = "online",
                   !.mongodb = mongoStatus, !.flask_ai = flaskStatus]

\* GET /api/health up to the probe of the predictor; without FLASK_URL
\* there is no probe and the handler replies at once.
HealthStart(s, mongoStatus) ==
  /\ res.kind = "none"
  /\ IF Falsy(FLASK_URL)
     THEN /\ res' = HealthRes(mongoStatus, "offline")
          /\ UNCHANGED slot
     ELSE /\ FreeSlot(s)
          /\ slot' = [slot EXCEPT ![s] =
                        [BlankSlot EXCEPT !.kind = "health", !.pc = "probe"]]
          /\ UNCHANGED res
  /\ UNCHANGED <<users, scans, sessions, FLASK_URL, returned>>

\* axios.get(FLASK_URL/health) resolves with 200 (online), resolves with
\* another status, rejects or times out (offline); the handler replies.
HealthDone(s, mongoStatus, flaskStatus) ==
  /\ res.kind = "none"
  /\ slot[s].kind = "health"
  /\ slot[s].pc = "probe"
  /\ res' = HealthRes(mongoStatus, flaskStatus)
  /\ slot' = [slot EXCEPT ![s] = BlankSlot]
  /\ UNCHANGED <<users, scans, sessions, FLASK_URL, returned>>

\* The response leaves the process; the next step can run.
Deliver ==
  /\ res.kind # "none"
  /\ res' = BlankRes
  /\ UNCHANGED <<users, scans, sessions, FLASK_URL, slot, returned>>

\* ---------------------------------------------------------- specifications
\* The accounts side: signup, local login, Google login and logout of one
\* browser session, with every input varied.
NextAuth ==
  \/ Deliver
  \/ \E s \in Slots, email \in Emails, password \in Passwords \cup {Undefined},
        name \in Names :
       SignupLookup(s, email, password, name)
  \/ \E s \in Slots : SignupSave(s)
  \/ \E email \in Emails, password \in Passwords :
       LoginLocal("c1", email, password)
  \/ Logout("c1")
  \/ \E s \in Slots, sid \in GoogleIds, email \in Emails \cup {Undefined},
        name \in DisplayNames :
       GoogleLookupId(s, "c1", sid, email, name)
  \/ \E s \in Slots : GoogleLookupEmail(s)
  \/ \E s \in Slots : GoogleLink(s)
  \/ \E s \in Slots : GoogleCreate(s)

InitAuth == Init /\ ~Falsy(FLASK_URL)

SpecAuth == InitAuth /\ [][NextAuth]_vars

\* The scan side: two browser sessions whose users sign up and log in with
\* one password, and the scan pipeline with every outcome of the predictor
\* and of the UrlCheck save.
NextScan ==
  \/ Deliver
  \/ \E s \in Slots, email \in Emails : SignupLookup(s, email, "pw1", "Ann")
  \/ \E s \in Slots : SignupSave(s)
  \/ \E sess \in Sessions, email \in Emails : LoginLocal(sess, email, "pw1")
  \/ \E sess \in Sessions : Logout(sess)
  \/ \E s \in Slots, sess \in Sessions, url \in Urls : ScanStart(s, sess, url)
  \/ \E s \in Slots, prediction \in Labels, confidence \in Confidences :
       PredictOk(s, prediction, confidence)
  \/ \E s \in Slots, cause \in Causes : PredictFail(s, cause)
  \/ \E s \in Slots : PredictRetry(s)
  \/ \E s \in Slots : ScanSaveOk(s)
  \/ \E s \in Slots, cause \in StorageCauses : ScanSaveFail(s, cause)

SpecScan == Init /\ [][NextScan]_vars

\* Sessions: signup, both logins, logout, current_user and scans that the
\* predictor answers, over two browser sessions.
NextSession ==
  \/ Deliver
  \/ \E s \in Slots, email \in Emails : SignupLookup(s, email, "pw1", "Ann")
  \/ \E s \in Slots : SignupSave(s)
  \/ \E sess \in Sessions, email \in Emails, password \in Passwords :
       LoginLocal(sess, email, password)
  \/ \E sess \in Sessions : Logout(sess)
  \/ \E s \in Slots, sess \in Sessions :
       GoogleLookupId(s, sess, "g1", "bob@x.io", "Gia")
  \/ \E s \in Slots : GoogleLookupEmail(s)
  \/ \E s \in Slots : GoogleLink(s)
  \/ \E s \in Slots : GoogleCreate(s)
  \/ \E sess \in Sessions : CurrentUser(sess)
  \/ \E s \in Slots, sess \in Sessions : ScanStart(s, sess, "http://u.test")
  \/ \E s \in Slots : PredictOk(s, "phishing", 97)
  \/ \E s \in Slots : ScanSaveOk(s)

SpecSession == InitAuth /\ [][NextSession]_vars

\* Every operation of the server, from one browser session whose user
\* changes with each login.
NextAll ==
  \/ Deliver
  \/ \E s \in Slots, email \in Emails : SignupLookup(s, email, "pw1", "Ann")
  \/ \E s \in Slots : SignupSave(s)
  \/ \E email \in Emails : LoginLocal("c1", email, "pw1")
  \/ Logout("c1")
  \/ \E s \in Slots : GoogleLookupId(s, "c1", "g1", "bob@x.io", "Gia")
  \/ \E s \in Slots : GoogleLookupEmail(s)
  \/ \E s \in Slots : GoogleLink(s)
  \/ \E s \in Slots : GoogleCreate(s)
  \/ CurrentUser("c1")
  \/ \E s \in Slots, url \in Urls : ScanStart(s, "c1", url)
  \/ \E s \in Slots : PredictOk(s, "phishing", 97)
  \/ \E s \in Slots : PredictFail(s, "ECONNREFUSED")
  \/ \E s \in Slots : PredictRetry(s)
  \/ \E s \in Slots : ScanSaveOk(s)
  \/ \E s \in Slots, cause \in StorageCauses : ScanSaveFail(s, cause)
  \/ \E s \in Slots : RecentFind(s, "c1", FALSE)
  \/ \E s \in Slots : RecentCount(s)
  \/ \E s \in Slots : RecentRespond(s)
  \/ \E s \in Slots, mongoStatus \in Statuses : HealthStart(s, mongoStatus)
  \/ \E s \in Slots, mongoStatus \in Statuses, flaskStatus \in Statuses :
       HealthDone(s, mongoStatus, flaskStatus)

SpecAll == Init /\ [][NextAll]_vars

\* The scan history: two users who signed up before, with a history of
\* earlier scans that reaches past the limit of the recent-scans query; they
\* log in and out, scan, and ask for their recent scans.
HistoryLens == {0, 1, MaxHistory - 1, MaxHistory}

\* n earlier UrlChecks in insertion order: every k-th belongs to user 1, the
\* others to user 2, and every l-th is labelled phishing.
History(n, k, l) ==
  [i \in 1..n |->
     UrlCheck("http://u.test",
              IF i % l = 0 THEN "phishing" ELSE "legitimate", 97,
              IF i % k = 0 THEN 1 ELSE 2, i)]

InitRecent ==
  /\ users = <<User("ann@x.io", Hash("pw1"), Undefined, "Ann"),
               User("bob@x.io", Hash("pw1"), Undefined, "Ann")>>
  /\ scans \in {History(n, k, l) : n \in HistoryLens, k \in 1..3, l \in 1..2}
  /\ sessions = [c \in Sessions |-> 0]
  /\ FLASK_URL = "http://flask:7000"
  /\ slot = [s \in Slots |-> BlankSlot]
  /\ res = BlankRes
  /\ returned = [g \in GoogleIds |-> 0]

NextRecent ==
  \/ Deliver
  \/ \E sess \in Sessions, email \in Emails : LoginLocal(sess, email, "pw1")
  \/ \E sess \in Sessions : Logout(sess)
  \/ \E s \in Slots, sess \in Sessions : ScanStart(s, sess, "http://u.test")
  \/ \E s \in Slots, prediction \in Labels : PredictOk(s, prediction, 97)
  \/ \E s \in Slots : ScanSaveOk(s)
  \/ \E s \in Slots, sess \in Sessions, strictQuery \in BOOLEAN :
       RecentFind(s, sess, strictQuery)
  \/ \E s \in Slots : RecentCount(s)
  \/ \E s \in Slots : RecentRespond(s)

SpecRecent == InitRecent /\ [][NextRecent]_vars

\* The scan pipeline of one browser session under the scheduling the
\* runtime gives: a written response leaves, every predictor call returns
\* (axios resolves, rejects, or times out after 120000 ms), the backoff
\* timer fires, and the save settles.  The steps of a request are disabled
\* while another request's response is leaving, hence strong fairness.
NextLive ==
  \/ Deliver
  \/ \E s \in Slots : SignupLookup(s, "ann@x.io", "pw1", "Ann")
  \/ \E s \in Slots : SignupSave(s)
  \/ LoginLocal("c1", "ann@x.io", "pw1")
  \/ Logout("c1")
  \/ \E s \in Slots, url \in Urls : ScanStart(s, "c1", url)
  \/ \E s \in Slots, prediction \in Labels : PredictOk(s, prediction, 97)
  \/ \E s \in Slots, cause \in Causes : PredictFail(s, cause)
  \/ \E s \in Slots : PredictRetry(s)
  \/ \E s \in Slots : ScanSaveOk(s)
  \/ \E s \in Slots, cause \in StorageCauses : ScanSaveFail(s, cause)

\* The predictor call of the scan in slot s returns.
PredictReturns(s) ==
  \/ \E prediction \in Labels : PredictOk(s, prediction, 97)
  \/ \E cause \in Causes : PredictFail(s, cause)

\* The save of the scan in slot s settles.
SaveSettles(s) ==
  \/ ScanSaveOk(s)
  \/ \E cause \in StorageCauses : ScanSaveFail(s, cause)

LiveFairness ==
  /\ WF_vars(Deliver)
  /\ \A s \in Slots : /\ SF_vars(PredictReturns(s))
                       /\ SF_vars(PredictRetry(s))
                       /\ SF_vars(SaveSettles(s))

SpecLive == Init /\ [][NextLive]_vars /\ LiveFairness

\* The whole server.
Next ==
  \/ NextAuth
  \/ NextScan
  \/ NextSession
  \/ NextAll
  \/ NextRecent
  \/ NextLive
  \/ \E s \in Slots, sess \in Sessions, sid \in GoogleIds,
        email \in Emails \cup {Undefined}, name \in DisplayNames :
       GoogleLookupId(s, sess, sid, email, name)
  \/ \E s \in Slots, sess \in Sessions, strictQuery \in BOOLEAN :
       RecentFind(s, sess, strictQuery)

Spec == Init /\ [][Next]_vars

\* ------------------------------------------------- steps, as formulas see them
\* The step is one of the scan request waiting in slot s.
ScanStep(s) == slot[s].kind = "scan" /\ slot'[s] # slot[s]

\* The step takes a new scan request into slot s.
ScanAccepted(s) == slot[s].kind = "idle" /\ slot'[s].kind = "scan"

\* The step answers a scan request that never waited (400 or 503).
ScanRefused == res.kind = "none" /\ res'.kind = "scan" /\ slot' = slot

\* The step is the end of newCheck.save() of the request in slot s.
SaveStep(s) == ScanStep(s) /\ slot[s].pc = "save"

\* The step appends exactly the UrlCheck of request r to the collection.
AppendsCheckOf(r) ==
  /\ Len(scans') = Len(scans) + 1
  /\ SubSeq(scans', 1, Len(scans)) = scans
  /\ LET c == scans'[Len(scans')]
     IN  /\ c.user = r.uid
         /\ c.url = r.url
         /\ c.prediction = r.prediction
         /\ c.confidence = r.confidence

C2_PredictedScanCreatesOneRecord ==
  [][\A s \in Slots : SaveStep(s) => AppendsCheckOf(slot[s])]_vars

\* C2, amended: such a request creates exactly one UrlCheck when its save
\* succeeds (the request answers 200) and none when the save fails; the
\* record is owned by the user the session resolved to when the request
\* arrived, and no other step of the request touches the collection.
C2_SavedScanCreatesOneRecord ==
  [][/\ \A s \in Slots :
          /\ ScanAccepted(s) =>
               /\ slot'[s].uid = sessions[slot'[s].sess]
               /\ ~Falsy(slot'[s].url)
               /\ scans' = scans
          /\ ScanStep(s) =>
               IF SaveStep(s) /\ res'.status = 200
               THEN /\ IsAuthenticated(slot[s].uid)
                    /\ AppendsCheckOf(slot[s])
                    /\ res'.prediction = slot[s].prediction
                    /\ res'.confidence = slot[s].confidence
               ELSE scans' = scans
          /\ (ScanStep(s) /\ slot[s].pc = "predict" /\ slot'[s].pc = "save") =>
               /\ IsAuthenticated(slot[s].uid)
               /\ slot'[s].uid = slot[s].uid
               /\ slot'[s].url = slot[s].url
     /\ ScanRefused => scans' = scans]_vars

\* C2 witness: an authenticated scan has just answered 200 and its record is
\* the newest of the collection, while the other session belongs to someone
\* else.
C2_Witness ==
  /\ res.kind = "scan"
  /\ res.status = 200
  /\ IsAuthenticated(res.uid)
  /\ Len(scans) >= 1
  /\ scans[Len(scans)].user = res.uid
  /\ scans[Len(scans)].prediction = res.prediction
  /\ \E c \in Sessions : sessions[c] \notin {0, res.uid}

\* C3: no step of an anonymous scan request changes the urlchecks
\* collection, whether the predictor answers, fails once or fails twice.
C3_AnonymousScanSavesNothing ==
  [][/\ \A s \in Slots :
          /\ (ScanStep(s) /\ ~IsAuthenticated(slot[s].uid)) =>
               /\ scans' = scans
               /\ slot'[s].pc # "save"
          /\ (ScanAccepted(s) /\ ~IsAuthenticated(sessions[slot'[s].sess])) =>
               /\ scans' = scans
               /\ ~IsAuthenticated(slot'[s].uid)
     /\ (ScanRefused /\ ~IsAuthenticated(res'.uid)) => scans' = scans]_vars

\* C3 witness: an anonymous scan has answered 200 after a failed first
\* attempt, while records of other users exist.
C3_Witness ==
  /\ res.kind = "scan"
  /\ ~IsAuthenticated(res.uid)
  /\ res.status = 200
  /\ res.calls = 2
  /\ Len(scans) >= 1

\* C4: with the predictor unconfigured a scan of a non-empty url answers 503
\* with the error code FLASK_SERVICE_NOT_CONFIGURED, and only then is the
\* status 503 (a predictor failure answers 500); no predictor call is made,
\* no request waits on the predictor and no UrlCheck exists.
C4_UnconfiguredAnswers503 ==
  /\ res.kind = "scan" =>
       /\ res.status = 503 <=> (~Falsy(res.url) /\ Falsy(FLASK_URL))
       /\ res.status = 503 =>
            /\ res.error = "FLASK_SERVICE_NOT_CONFIGURED"
            /\ res.calls = 0
            /\ res.prediction = Undefined
  /\ Falsy(FLASK_URL) =>
       /\ \A s \in Slots : slot[s].kind # "scan"
       /\ scans = <<>>

\* C4 witness: an authenticated caller has been answered 503.
C4_Witness ==
  /\ res.kind = "scan"
  /\ res.status = 503
  /\ IsAuthenticated(res.uid)

\* C5: a scan whose url is empty or missing answers 400 without a predictor
\* call, never waits on the predictor and leaves no UrlCheck, for any caller
\* and any configuration.
C5_EmptyUrlAnswers400 ==
  /\ (res.kind = "scan" /\ Falsy(res.url)) =>
       /\ res.status = 400
       /\ res.calls = 0
       /\ res.prediction = Undefined
  /\ (res.kind = "scan" /\ res.status = 400) => Falsy(res.url)
  /\ \A s \in Slots : slot[s].kind = "scan" => ~Falsy(slot[s].url)
  /\ \A i \in 1..Len(scans) : ~Falsy(scans[i].url)

\* C5 witness: an authenticated caller on a server without predictor has
\* been answered 400 for an empty url.
C5_Witness ==
  /\ res.kind = "scan"
  /\ res.status = 400
  /\ res.url = ""
  /\ IsAuthenticated(res.uid)
  /\ Falsy(FLASK_URL)

\* C5 witness, second case: an anonymous caller on a configured server has
\* been answered 400 for a missing url.
C5_WitnessMissing ==
  /\ res.kind = "scan"
  /\ res.status = 400
  /\ res.url = Undefined
  /\ ~IsAuthenticated(res.uid)
  /\ ~Falsy(FLASK_URL)

\* The step answers a signup without a save (409, or 500 from hashing).
SignupRefused == res.kind = "none" /\ res'.kind = "signup" /\ slot' = slot

\* The step lets a signup go on to newUser.save() in slot s.
SignupAccepted(s) == slot[s].kind = "idle" /\ slot'[s].kind = "signup"

\* The step is the end of newUser.save() of the signup in slot s.
SignupSaveStep(s) == slot[s].kind = "signup" /\ slot'[s] # slot[s]

\* Every document of the collection is still there, unchanged.
UsersKept ==
  /\ Len(users') >= Len(users)
  /\ SubSeq(users', 1, Len(users)) = users

\* What the client sees of a response.
ClientView(r) ==
  <<r.status, r.message, r.error, r.username, r.prediction, r.confidence>>

\* C6: a signup that arrives when its email is registered answers 409, never
\* reaches the save and leaves the collection as it was; and no step of any
\* signup alters a stored User or adds a second User for a registered email.
C6_SecondSignupConflicts ==
  [][/\ (SignupRefused /\ FindOneByEmail(users, res'.email) # 0) =>
          /\ res'.status = 409
          /\ res'.message = "Email already exists"
     /\ SignupRefused => users' = users
     /\ \A s \in Slots :
          /\ SignupAccepted(s) =>
               /\ FindOneByEmail(users, slot'[s].email) = 0
               /\ users' = users
          /\ SignupSaveStep(s) =>
               /\ UsersKept
               /\ FindOneByEmail(users, slot[s].email) # 0 => users' = users]_vars

\* C6 witness: a signup with another password than the stored one has just
\* been answered 409.
C6_Witness ==
  /\ res.kind = "signup"
  /\ res.status = 409
  /\ \E i \in Ids(users) :
       /\ users[i].email = res.email
       /\ ~Falsy(users[i].password)
       /\ users[i].password # Hash(res.password)

\* C7: no two User documents hold the same email, in any state of any
\* interleaving of signups and Google logins.
C7_EmailUnique ==
  \A i, j \in Ids(users) : i # j => users[i].email # users[j].email

\* C7 witness: a signup passed its lookup, the email was registered by a
\* concurrent request before its save, and the save was refused.
C7_Witness ==
  /\ res.kind = "signup"
  /\ res.status = 500
  /\ FindOneByEmail(users, res.email) # 0

\* C8: a local login answers 200 and binds the session to the user exactly
\* when the email belongs to a User whose password hash matches; otherwise,
\* whether the email is unknown, the account has no password hash or the
\* password is wrong, the client sees the same bare 401 and the session
\* store is untouched.
C8_LocalLoginOutcome ==
  [][(res.kind = "none" /\ res'.kind = "login") =>
       LET r == res'
           ok == \E i \in Ids(users) :
                   /\ users[i].email = r.email
                   /\ ~Falsy(users[i].password)
                   /\ users[i].password = Hash(r.password)
       IN  /\ users' = users
           /\ IF ok
              THEN /\ r.status = 200
                   /\ r.user \in Ids(users)
                   /\ users[r.user].email = r.email
                   /\ sessions' = [sessions EXCEPT ![r.sess] = r.user]
              ELSE /\ sessions' = sessions
                   /\ r.user = 0
                   /\ ClientView(r) =
                        <<401, "Unauthorized", Undefined, Undefined,
                          Undefined, 0>>]_vars

\* C8 witness: a login with the email of an account that has no password
\* hash has just been answered 401.
C8_Witness ==
  /\ res.kind = "login"
  /\ res.status = 401
  /\ \E i \in Ids(users) :
       users[i].email = res.email /\ Falsy(users[i].password)

\* C9, as the specification states it: a Google login that starts after a
\* login with the same Google id has returned a User returns that User
\* again, creates no User and changes no User.
C9_GoogleLoginIdempotent ==
  [][(res.kind = "none" /\ res'.kind = "google" /\ res'.prior # 0) =>
       /\ res'.status = 302
       /\ res'.user = res'.prior
       /\ users' = users]_vars

\* C10: a Google login whose id no User holds goes on to the email lookup;
\* when that finds a User it goes on to link that User; and the link, while
\* still no User holds the id, returns that User, sets its googleId to the
\* id and changes nothing else: same email, same password hash, same name,
\* no new User.
C10_GoogleLinkFrame ==
  [][\A s \in Slots :
       /\ (slot[s].kind = "idle" /\ slot'[s].kind = "google") =>
            /\ FindOneByGoogleId(users, slot'[s].sid) = 0
            /\ users' = users
       /\ (res.kind = "none" /\ res'.kind = "google" /\ slot' = slot) =>
            FindOneByGoogleId(users, res'.sid) # 0
       /\ (slot[s].kind = "google" /\ slot[s].pc = "byEmail"
             /\ slot'[s] # slot[s]) =>
            /\ users' = users
            /\ FindOneByEmail(users, slot[s].email) # 0 =>
                 /\ slot'[s].pc = "link"
                 /\ slot'[s].target = FindOneByEmail(users, slot[s].email)
       /\ (slot[s].kind = "google" /\ slot[s].pc = "link"
             /\ slot'[s] # slot[s]
             /\ FindOneByGoogleId(users, slot[s].sid) = 0) =>
            LET u == slot[s].target
            IN  /\ res'.status = 302
                /\ res'.user = u
                /\ users[u].email = slot[s].email
                /\ Len(users') = Len(users)
                /\ \A i \in Ids(users) : i # u => users'[i] = users[i]
                /\ users'[u].googleId = slot[s].sid
                /\ users'[u].email = users[u].email
                /\ users'[u].password = users[u].password
                /\ users'[u].name = users[u].name]_vars

\* C10 witness: a Google login has just returned a User that signed up with
\* a password and now carries the login's Google id.
C10_Witness ==
  /\ res.kind = "google"
  /\ res.status = 302
  /\ res.prior = 0
  /\ res.user \in Ids(users)
  /\ ~Falsy(users[res.user].password)
  /\ users[res.user].googleId = res.sid
  /\ users[res.user].email = res.email

\* ------------------------------------------------------------------- C11
\* C11: in every reachable state every stored User has at least one way to
\* authenticate: its password is a bcrypt hash, or its googleId is the id of
\* a Google profile.
C11_EveryUserCanAuthenticate ==
  \A i \in Ids(users) :
    \/ users[i].password \in {Hash(p) : p \in Passwords}
    \/ users[i].googleId \in GoogleIds

\* A user created by signup (password only) is stored next to one created by
\* a Google login (googleId only).
C11_Witness ==
  \E i, j \in Ids(users) :
    /\ users[i].password # Undefined /\ users[i].googleId = Undefined
    /\ users[j].password = Undefined /\ users[j].googleId # Undefined

\* ------------------------------------------------------------------- C12
\* The step ends the predictor call of the scan in slot s with a response.
PredictSucceeds(s) ==
  /\ ScanStep(s)
  /\ slot[s].pc = "predict"
  /\ \/ slot'[s].pc = "save"
     \/ slot'[s].kind = "idle" /\ res'.status = 200

\* The step ends the predictor call of the scan in slot s with an error.
PredictFails(s) ==
  /\ ScanStep(s)
  /\ slot[s].pc = "predict"
  /\ ~PredictSucceeds(s)

\* C12: within one scan submission the predictor is called at most twice.
\* The first call is issued when the request is accepted; the only step that
\* issues another is the one after the backoff that a failed first call
\* started; after a successful call the request makes no further call; and
\* when the second call fails too the request ends with the 500 "Scan
\* failed" response whose error is the predictor failure's cause, with no
\* UrlCheck stored.
C12_PredictorCalledAtMostTwice ==
  [][\A s \in Slots :
       /\ ScanAccepted(s) => slot'[s].calls = 1 /\ slot'[s].pc = "predict"
       /\ ScanStep(s) =>
            /\ slot[s].calls \in 1..2
            /\ slot'[s].kind = "scan" =>
                 /\ slot'[s].calls \in {slot[s].calls, slot[s].calls + 1}
                 /\ slot'[s].calls <= 2
                 /\ slot'[s].calls = slot[s].calls + 1 =>
                      slot[s].pc = "backoff" /\ slot[s].calls = 1
            /\ slot'[s].kind = "idle" => res'.calls = slot[s].calls
            /\ slot'[s].pc = "backoff" => PredictFails(s) /\ slot[s].calls = 1
            /\ slot[s].pc = "backoff" =>
                 slot'[s].pc = "predict" /\ slot'[s].calls = 2
            /\ (PredictFails(s) /\ slot[s].calls = 1) =>
                 slot'[s].pc = "backoff" /\ res' = res /\ scans' = scans
            /\ PredictSucceeds(s) =>
                 \/ slot'[s].kind = "idle"
                 \/ slot'[s].pc = "save" /\ slot'[s].calls = slot[s].calls
            /\ slot[s].pc = "save" => slot'[s].kind = "idle"
            /\ (PredictFails(s) /\ slot[s].calls = 2) =>
                 /\ slot'[s].kind = "idle"
                 /\ res'.kind = "scan"
                 /\ res'.status = 500
                 /\ res'.message = "Scan failed"
                 /\ res'.error \in Causes
                 /\ scans' = scans]_vars

\* A scan whose two predictor calls both failed has answered 500, an
\* authenticated one, with nothing stored.
C12_Witness ==
  /\ res.kind = "scan"
  /\ res.status = 500
  /\ res.calls = 2
  /\ res.error \in Causes
  /\ IsAuthenticated(res.uid)
  /\ scans = <<>>

\* A scan whose first predictor call failed and whose second succeeded has
\* answered with the prediction.
C12_WitnessRetrySucceeds ==
  /\ res.kind = "scan"
  /\ res.status = 200
  /\ res.calls = 2

\* ------------------------------------------------------------------- C13
\* The step completes a login (local or Google) that succeeded.
LoginSucceeds ==
  /\ res.kind = "none"
  /\ res'.kind \in {"login", "google"}
  /\ res'.user # 0

\* The step completes a login that failed.
LoginFails ==
  /\ res.kind = "none"
  /\ res'.kind \in {"login", "google"}
  /\ res'.user = 0

\* The step is a logout.
LogoutDone == res.kind = "none" /\ res'.kind = "logout"

\* C13: a request is resolved to an authenticated user exactly when its
\* session was bound to that user by a successful local or Google login and
\* no logout of the session happened since.  Step by step: a successful
\* login binds its session to the user it returned, a logout unbinds its
\* session, and no other step changes any binding (a session starts
\* unbound); current_user answers loggedIn with the bound user's name and
\* email when its session is bound and a bare loggedIn = false when it is
\* not; a scan is taken for the user its session is bound to, and the scan
\* of an unbound session is anonymous and stores nothing.
C13_SessionResolution ==
  [][/\ LoginSucceeds =>
          /\ res'.user \in Ids(users')
          /\ sessions' = [sessions EXCEPT ![res'.sess] = res'.user]
     /\ LoginFails => sessions' = sessions
     /\ LogoutDone => sessions' = [sessions EXCEPT ![res'.sess] = 0]
     /\ sessions' # sessions => LoginSucceeds \/ LogoutDone
     /\ (res.kind = "none" /\ res'.kind = "current_user") =>
          LET uid == sessions[res'.sess]
          IN  /\ res'.loggedIn = (uid # 0)
              /\ uid # 0 => /\ res'.email = users[uid].email
                            /\ res'.username = Username(users[uid])
              /\ uid = 0 => /\ res'.email = Undefined
                            /\ res'.username = Undefined
     /\ \A s \in Slots :
          /\ ScanAccepted(s) => slot'[s].uid = sessions[slot'[s].sess]
          /\ ScanStep(s) =>
               /\ slot'[s].kind = "scan" => slot'[s].uid = slot[s].uid
               /\ slot'[s].kind = "idle" => res'.uid = slot[s].uid
               /\ ~IsAuthenticated(slot[s].uid) => scans' = scans
               /\ scans' # scans =>
                    scans'[Len(scans')].user = slot[s].uid]_vars

\* Session c1 is bound to a user who has no password, so a Google login
\* bound it; session c2 is unbound and its current_user has just answered
\* loggedIn = false.
C13_Witness ==
  /\ res.kind = "current_user"
  /\ res.sess = "c2"
  /\ ~res.loggedIn
  /\ sessions["c1"] # 0
  /\ users[sessions["c1"]].password = Undefined
  /\ Len(users) = 2

\* current_user has just answered with the user bound to its session.
C13_WitnessLoggedIn ==
  /\ res.kind = "current_user"
  /\ res.loggedIn
  /\ res.email = "bob@x.io"
  /\ sessions[res.sess] = 2

\* A scan of an unbound session was answered while another session is bound.
C13_WitnessAnonymousScan ==
  /\ res.kind = "scan"
  /\ res.status = 200
  /\ res.uid = 0
  /\ \E c \in Sessions : sessions[c] # 0

\* ------------------------------------------------------------------- C14
\* C14: UrlChecks are append-only.  Whatever the step (signup, a login,
\* logout, current_user, a step of a scan, of recent-scans or of health),
\* the collection after it holds every document it held before, unchanged
\* and at the same place; a step can only add documents at the end.
C14_ScansAppendOnly ==
  [][/\ Len(scans') >= Len(scans)
     /\ SubSeq(scans', 1, Len(scans)) = scans]_vars

\* Two UrlChecks of different owners are stored and a recent-scans request
\* has just been answered.
C14_Witness ==
  /\ Len(scans) = 2
  /\ scans[1].user # scans[2].user
  /\ res.kind = "recent"
  /\ IsAuthenticated(res.uid)

\* ------------------------------------------------------------------- C15
\* The step takes a recent-scans request into slot s: its find has run.
RecentAccepted(s) == slot[s].kind = "idle" /\ slot'[s].kind = "recent"

\* The step answers the recent-scans request waiting in slot s.
RecentAnswered(s) == slot[s].kind = "recent" /\ slot'[s].kind = "idle"

\* The ids of the documents in a list of recent scans.
IdsIn(list) == {list[k].id : k \in 1..Len(list)}

\* C15: for an authenticated caller the list of recent-scans holds only
\* UrlChecks the caller owns, each as it is stored, none twice, ordered by
\* checkedAt with the most recent first, and at most 10 of them; they are
\* the caller's most recent ones (an owned UrlCheck left out is no more
\* recent than any listed one, and is left out only when the list is full),
\* so the UrlCheck the caller created last is listed, and listed first.  The
\* response carries that list.  An anonymous caller gets an empty list.
C15_RecentScansOfCaller ==
  [][/\ \A s \in Slots :
          /\ RecentAccepted(s) =>
               LET uid == sessions[slot'[s].sess]
                   list == slot'[s].found
                   owned == FindByUser(scans, uid)
               IN  /\ IsAuthenticated(uid)
                   /\ slot'[s].uid = uid
                   /\ Len(list) <= 10
                   /\ IdsIn(list) \subseteq owned
                   /\ Cardinality(IdsIn(list)) = Len(list)
                   /\ \A k \in 1..Len(list) :
                        /\ list[k].url = scans[list[k].id].url
                        /\ list[k].prediction = scans[list[k].id].prediction
                        /\ list[k].confidence = scans[list[k].id].confidence
                        /\ list[k].checkedAt = scans[list[k].id].checkedAt
                   /\ \A k \in 1..(Len(list) - 1) :
                        list[k].checkedAt >= list[k + 1].checkedAt
                   /\ \A i \in owned \ IdsIn(list) :
                        /\ Len(list) = 10
                        /\ \A k \in 1..Len(list) :
                             list[k].checkedAt >= scans[i].checkedAt
                   /\ owned # {} =>
                        list[1].id = CHOOSE i \in owned :
                                       \A j \in owned : j <= i
          /\ RecentAnswered(s) =>
               /\ res'.kind = "recent"
               /\ res'.uid = slot[s].uid
               /\ res'.scans = slot[s].found
     /\ (res.kind = "none" /\ res'.kind = "recent" /\ slot' = slot) =>
          /\ ~IsAuthenticated(sessions[res'.sess])
          /\ res'.scans = <<>>]_vars

\* A caller who owns more than 10 UrlChecks has just been answered with a
\* full list.
C15_Witness ==
  /\ res.kind = "recent"
  /\ IsAuthenticated(res.uid)
  /\ Len(res.scans) = 10
  /\ Cardinality(FindByUser(scans, res.uid)) > 10

\* A caller has just been answered with a list headed by a UrlCheck that a
\* scan of this run created, ahead of an older one.
C15_WitnessJustCreated ==
  /\ res.kind = "recent"
  /\ Len(scans) = 2
  /\ Len(res.scans) = 2
  /\ res.scans[1].id = 2

\* An anonymous caller has just been answered with an empty list while
\* UrlChecks are stored.
C15_WitnessAnonymous ==
  /\ res.kind = "recent"
  /\ ~IsAuthenticated(res.uid)
  /\ res.scans = <<>>
  /\ scans # <<>>

\* ------------------------------------------------------------------- C16
\* C16: for an authenticated caller the total of recent-scans is the number
\* of UrlChecks the caller owns when they are counted, phishingFound is the
\* number of those labelled phishing when they are counted, and
\* legitimateFound is total minus phishingFound.
C16_CountsOfCaller ==
  [][\A s \in Slots :
       /\ (slot[s].kind = "recent" /\ slot[s].pc = "count"
             /\ slot'[s] # slot[s]) =>
            slot'[s].total = Cardinality(FindByUser(scans, slot[s].uid))
       /\ RecentAnswered(s) =>
            /\ res'.total = slot[s].total
            /\ res'.phishingFound =
                 Cardinality({i \in FindByUser(scans, slot[s].uid) :
                                scans[i].prediction = "phishing"})
            /\ res'.legitimateFound = res'.total - res'.phishingFound]_vars

\* ------------------------------------------------------------------- C17
\* What a step may do to a scan submission: refuse it in validation with
\* 400 or 503, accept it with the first predictor call and no response yet,
\* move it from the predictor call to the backoff, to the save (only on a
\* successful prediction of an authenticated request) or to its response,
\* from the backoff to the next call, from the save to its response.  A
\* waiting request writes no response, its last step writes one, with
\* status 200 or 500, and a UrlCheck is stored only by the save step.
ScanLifecycle ==
  /\ ScanRefused =>
       /\ res'.status \in {400, 503}
       /\ (res'.status = 400) <=> Falsy(res'.url)
       /\ scans' = scans
  /\ scans' # scans => \E s \in Slots : SaveStep(s)
  /\ \A s \in Slots :
       /\ ScanAccepted(s) =>
            /\ res' = res
            /\ ~Falsy(slot'[s].url)
            /\ ~Falsy(FLASK_URL)
            /\ slot'[s].pc = "predict"
       /\ ScanStep(s) =>
            /\ slot'[s].kind \in {"scan", "idle"}
            /\ slot'[s].kind = "scan" =>
                 /\ res' = res
                 /\ scans' = scans
                 /\ <<slot[s].pc, slot'[s].pc>> \in
                      {<<"predict", "backoff">>, <<"backoff", "predict">>,
                       <<"predict", "save">>}
                 /\ slot'[s].pc = "save" =>
                      /\ IsAuthenticated(slot[s].uid)
                      /\ slot'[s].prediction \in Labels
            /\ slot'[s].kind = "idle" =>
                 /\ res.kind = "none"
                 /\ res'.kind = "scan"
                 /\ res'.sess = slot[s].sess
                 /\ res'.status \in {200, 500}
                 /\ slot[s].pc \in {"predict", "save"}
                 /\ (res'.status = 200 /\ IsAuthenticated(slot[s].uid)) =>
                      slot[s].pc = "save"
                 /\ scans' # scans =>
                      /\ slot[s].pc = "save"
                      /\ slot[s].prediction \in Labels
                      /\ res'.status = 200

\* C17: every scan submission terminates with exactly one response and
\* follows received, validated, predicted, persisted if authenticated,
\* responded: every step keeps to the lifecycle above, in which a request
\* responds once, at its end, and stores nothing before a successful
\* prediction, and every accepted request reaches its end, whatever the
\* predictor and the save do.
C17_ScanTerminatesWithOneResponse ==
  /\ [][ScanLifecycle]_vars
  /\ \A s \in Slots : (slot[s].kind = "scan") ~> (slot[s].kind = "idle")

\* Scans have ended in each way: refused by validation is the response at
\* hand, and of two earlier authenticated scans one was stored.
C17_Witness ==
  /\ res.kind = "scan"
  /\ res.status = 500
  /\ res.error \in StorageCauses
  /\ Len(scans) = 1

\* A scan was refused by validation.
C17_WitnessRefused ==
  /\ res.kind = "scan"
  /\ res.status = 400
  /\ \A s \in Slots : slot[s].kind = "idle"

====
